---- MODULE Spec2Model ----
(***************************************************************************)
(* Model of the translation proxy of src/main.go: the translation cache    *)
(* (addToCache / getFromCache), the translation client adapter             *)
(* (translateWithDeepSeek / callDeepSeekAPI), the HTML text pipeline        *)
(* (processHTML / extractText) and the two request flows                   *)
(* (handleTranslateAPI, handleAutomaticTranslation).                       *)
(*                                                                         *)
(* Go strings are TLA+ strings; time is counted in hours. One server        *)
(* process, with its one cache, is modelled.                               *)
(***************************************************************************)
EXTENDS Integers, Sequences, FiniteSets, TLC

VARIABLES
    cache,      \* translationCache: cache key -> CacheEntry
    now,        \* time.Now(), in hours since start
    apiKey,     \* DEEPSEEK_API_KEY read at startup
    req,        \* the requests in flight, one record per connection slot
    started,    \* number of requests accepted so far
    op,         \* the last direct call of the cache or the negotiator, with its result
    puts,       \* history: the direct put operations, latest first
    nputs,      \* number of direct put operations so far
    origin,     \* history: cache key -> the flow that last wrote it, what and when
    sent        \* history: the target languages submitted to the provider

vars == <<cache, now, apiKey, req, started, op, puts, nputs, origin, sent>>

(***************************************************************************)
(* Program constants (src/main.go:20-26)                                   *)
(***************************************************************************)
CacheDuration == 24
MaxTextLength == 5000
DefaultLanguage == "en"

(***************************************************************************)
(* Bounds of the model                                                     *)
(***************************************************************************)
MaxNow == 24
MaxRequests == 2
MaxPuts == 2
ClockSteps == {12}

(***************************************************************************)
(* package strings                                                         *)
(***************************************************************************)
HasPrefix(s, prefix) ==
    /\ Len(s) >= Len(prefix)
    /\ SubSeq(s, 1, Len(prefix)) = prefix

HasSuffix(s, suffix) ==
    /\ Len(s) >= Len(suffix)
    /\ SubSeq(s, Len(s) - Len(suffix) + 1, Len(s)) = suffix

Contains(s, substr) ==
    \E i \in 1..(Len(s) - Len(substr) + 1) :
        SubSeq(s, i, i + Len(substr) - 1) = substr

IsSpace(c) == c \in {" ", "\t", "\n", "\r"}

RECURSIVE TrimLeft(_)
TrimLeft(s) ==
    IF s # "" /\ IsSpace(Head(s)) THEN TrimLeft(Tail(s)) ELSE s

RECURSIVE TrimRight(_)
TrimRight(s) ==
    IF s # "" /\ IsSpace(SubSeq(s, Len(s), Len(s)))
    THEN TrimRight(SubSeq(s, 1, Len(s) - 1))
    ELSE s

TrimSpace(s) == TrimRight(TrimLeft(s))

UpperChars == "ABCDEFGHIJKLMNOPQRSTUVWXYZ"
LowerChars == "abcdefghijklmnopqrstuvwxyz"

LowerChar(c) ==
    IF \E i \in 1..Len(UpperChars) : SubSeq(UpperChars, i, i) = c
    THEN LET i == CHOOSE j \in 1..Len(UpperChars) : SubSeq(UpperChars, j, j) = c
         IN  SubSeq(LowerChars, i, i)
    ELSE c

RECURSIVE ToLower(_)
ToLower(s) ==
    IF s = "" THEN "" ELSE LowerChar(Head(s)) \o ToLower(Tail(s))

\* strings.Split(s, sep) for a one-character separator
RECURSIVE SplitFrom(_, _, _)
SplitFrom(s, sep, acc) ==
    IF s = "" THEN <<acc>>
    ELSE IF Head(s) = sep THEN <<acc>> \o SplitFrom(Tail(s), sep, "")
    ELSE SplitFrom(Tail(s), sep, acc \o Head(s))

Split(s, sep) == SplitFrom(s, sep, "")

(***************************************************************************)
(* Translation cache                                                       *)
(***************************************************************************)
\* a cache key that leaves the language out
CacheKeyNoLang(key, lang) == key

CacheKey(key, lang) ==
    IF lang # "" THEN key \o "|" \o lang ELSE key

CacheEntry(content, expiration) ==
    [Content |-> content, Expiration |-> expiration]

Store(m, k, e) ==
    [x \in (DOMAIN m) \cup {k} |-> IF x = k THEN e ELSE m[x]]

\* an entry that expires as it is stored
addToCacheNoTTL(m, key, lang, content) ==
    Store(m, CacheKey(key, lang), CacheEntry(content, now))

addToCache(m, key, lang, content) ==
    Store(m, CacheKey(key, lang), CacheEntry(content, now + CacheDuration))

\* a lookup that still serves an entry at its expiration instant
getFromCacheAtExpiry(key, lang) ==
    LET cacheKey == CacheKey(key, lang) IN
    IF cacheKey \in DOMAIN cache /\ now <= cache[cacheKey].Expiration
    THEN [content |-> cache[cacheKey].Content, ok |-> TRUE]
    ELSE [content |-> "", ok |-> FALSE]

getFromCache(key, lang) ==
    LET cacheKey == CacheKey(key, lang) IN
    IF cacheKey \in DOMAIN cache /\ now < cache[cacheKey].Expiration
    THEN [content |-> cache[cacheKey].Content, ok |-> TRUE]
    ELSE [content |-> "", ok |-> FALSE]

hashText(text) == ToString(Len(text))

isStaticFile(path) ==
    \E ext \in {".css", ".js", ".png", ".jpg", ".jpeg", ".gif", ".svg",
                ".ico", ".woff", ".woff2"} : HasSuffix(path, ext)

(***************************************************************************)
(* Language negotiation (the middleware of main and                        *)
(* detectPreferredLanguage)                                                *)
(***************************************************************************)
Supported == {"en", "pt", "es", "fr", "de", "it", "ja", "zh", "ru"}

RECURSIVE detectFrom(_)
detectFrom(parts) ==
    IF parts = <<>> THEN DefaultLanguage
    ELSE LET tag  == ToLower(TrimSpace(Split(Head(parts), ";")[1]))
             lang == IF Len(tag) > 2 THEN SubSeq(tag, 1, 2) ELSE tag
         IN  IF lang \in Supported THEN lang ELSE detectFrom(Tail(parts))

\* a negotiator that gives up after the first candidate
detectFirstCandidateOnly(header) == detectFrom(<<Split(header, ",")[1]>>)

detectPreferredLanguage(header) == detectFrom(Split(header, ","))

\* c.Locals("lang") as the middleware sets it
ResolveLanguage(queryLang, acceptLang) ==
    IF queryLang # "" THEN queryLang ELSE detectPreferredLanguage(acceptLang)

\* c.OriginalURL(): the path with its query string
OriginalURL(path, queryLang) ==
    IF queryLang # "" THEN path \o "?lang=" \o queryLang ELSE path

(***************************************************************************)
(* HTML text pipeline. A parsed document is the sequence of its nodes in   *)
(* document order (start tags, text nodes, end tags).                      *)
(***************************************************************************)
IndexOf(s, c) ==
    IF \E i \in 1..Len(s) : SubSeq(s, i, i) = c
    THEN CHOOSE i \in 1..Len(s) :
            /\ SubSeq(s, i, i) = c
            /\ \A j \in 1..(i - 1) : SubSeq(s, j, j) # c
    ELSE 0

ElementNode(data) == [Type |-> "ElementNode", Data |-> data]
TextNode(data) == [Type |-> "TextNode", Data |-> data]

RECURSIVE Tokenize(_)
Tokenize(s) ==
    IF s = "" THEN <<>>
    ELSE IF Head(s) = "<" /\ IndexOf(s, ">") > 0
         THEN LET j == IndexOf(s, ">")
              IN  <<ElementNode(SubSeq(s, 1, j))>> \o Tokenize(SubSeq(s, j + 1, Len(s)))
         ELSE LET j == IndexOf(Tail(s), "<")
              IN  IF j = 0 THEN <<TextNode(s)>>
                  ELSE <<TextNode(SubSeq(s, 1, j))>> \o Tokenize(SubSeq(s, j + 1, Len(s)))

\* html.Parse of a body fragment: the parser supplies html, head and body
Parse(s) ==
    <<ElementNode("<html>"), ElementNode("<head>"), ElementNode("</head>"),
      ElementNode("<body>")>>
    \o Tokenize(s)
    \o <<ElementNode("</body>"), ElementNode("</html>")>>

RECURSIVE Render(_)
Render(doc) ==
    IF doc = <<>> THEN "" ELSE Head(doc).Data \o Render(Tail(doc))

RECURSIVE extractWalk(_)
extractWalk(doc) ==
    IF doc = <<>> THEN ""
    ELSE LET n == Head(doc)
         IN  (IF n.Type = "TextNode" /\ TrimSpace(n.Data) # ""
              THEN TrimSpace(n.Data) \o " " ELSE "")
             \o extractWalk(Tail(doc))

extractText(doc) == TrimSpace(extractWalk(doc))

\* processNode's test of a node
Translatable(n) == n.Type = "TextNode" /\ TrimSpace(n.Data) # ""

\* the next node after position i that processNode hands to the translator,
\* 0 when the walk is over
NextTextNode(doc, i) ==
    IF \E j \in (i + 1)..Len(doc) : Translatable(doc[j])
    THEN CHOOSE j \in (i + 1)..Len(doc) :
            /\ Translatable(doc[j])
            /\ \A k \in (i + 1)..(j - 1) : ~Translatable(doc[k])
    ELSE 0

(***************************************************************************)
(* Inputs                                                                  *)
(***************************************************************************)
Requests == {"r1", "r2"}
ApiKeys == {"", "sk-1"}
\* direct use of the cache
PutKeys == {"/p", "/q", "/p|es"}
PutLangs == {"", "es", "fr"}
PutContents == {"X", "Y"}
\* direct use of the negotiator: the ?lang= override and the candidates of
\* an Accept-Language header
Overrides == {"", "es", "tlh"}
Candidates == {"fr-CA;q=0.9", "en;q=0.5", "xx-XX", " PT-br", "deu", "e-s", "", "ja;q=0.1"}
CandidateLists ==
    {<<a>> : a \in Candidates} \cup {<<a, b>> : a \in Candidates, b \in Candidates}
\* what a client sends
\* GET /api/translate?url=&lang= with its Accept-Language header
ApiRequests ==
    {[url |-> "", queryLang |-> "es", acceptLang |-> ""],
     [url |-> "http://a", queryLang |-> "es", acceptLang |-> ""],
     [url |-> "http://a", queryLang |-> "en", acceptLang |-> ""],
     [url |-> "http://a", queryLang |-> "", acceptLang |-> "fr-CA;q=0.9,en;q=0.5"]}
\* GET /* with its Accept-Language and Content-Type headers
PageRequests ==
    {[path |-> "/p", queryLang |-> "", acceptLang |-> "fr-CA;q=0.9,en;q=0.5",
      ctype |-> "text/html"],
     [path |-> "/p", queryLang |-> "", acceptLang |-> "fr-CA;q=0.9,en;q=0.5",
      ctype |-> ""],
     [path |-> "/p", queryLang |-> "", acceptLang |-> "xx-XX", ctype |-> "text/html"],
     [path |-> "/app.js", queryLang |-> "es", acceptLang |-> "", ctype |-> "text/html"],
     [path |-> "/app.js", queryLang |-> "", acceptLang |-> "fr-CA;q=0.9,en;q=0.5",
      ctype |-> "text/html"],
     [path |-> "/api/x", queryLang |-> "es", acceptLang |-> "", ctype |-> "text/html"]}
\* the requests sent where the cache mutex is followed
LockApiRequests ==
    {[url |-> "", queryLang |-> "es", acceptLang |-> ""],
     [url |-> "http://a", queryLang |-> "", acceptLang |-> "fr-CA;q=0.9,en;q=0.5"]}
LockPageRequests ==
    {[path |-> "/p", queryLang |-> "", acceptLang |-> "fr-CA;q=0.9,en;q=0.5",
      ctype |-> "text/html"],
     [path |-> "/app.js", queryLang |-> "", acceptLang |-> "fr-CA;q=0.9,en;q=0.5",
      ctype |-> "text/html"]}
\* the documents given to processHTML directly
Documents == {"<p>Hi <b>Yo</b></p>", "<p> </p><i>A</i> <u>B</u>", "<br>"}
\* what the fetched URL, the underlying handler and the provider answer
Pages == {"<p>Hi</p>", "<br>"}
HandlerResponses ==
    {[ctype |-> "text/html", body |-> "<p>Hi <b>Yo</b></p>"],
     [ctype |-> "application/javascript", body |-> "var x"]}
\* a text of n characters
RECURSIVE Filler(_)
Filler(n) ==
    IF n = 0 THEN ""
    ELSE IF n % 2 = 0 THEN LET half == Filler(n \div 2) IN half \o half
    ELSE "a" \o Filler(n - 1)

Texts == {"Hi", "Yo", " ", Filler(MaxTextLength), Filler(MaxTextLength + 1)}
TargetLangs == {"es", "fr"}
\* the texts of the clients that call translate concurrently
PairTexts == {"Ola", "Hi", "Yo"}
\* the provider has one translation of a text, or two
Variants(text) == IF text = "Ola" THEN {"", "~"} ELSE {""}

NoOp == [kind |-> "none", key |-> "", lang |-> "", content |-> "",
         ok |-> FALSE, at |-> 0]

NoResponse ==
    [status |-> 0, error |-> "", body |-> "", cached |-> FALSE,
     original |-> "", translated |-> "", language |-> ""]

NoCall == [result |-> "", err |-> "", calls |-> 0, at |-> 0, exp |-> 0]

\* a request as it is accepted: its inputs, the handler's locals, its
\* response, and a record of what it has done so far: the step that failed,
\* the content type of the underlying handler's response, whether processHTML
\* was called, and the numbers of cache lookups, cache writes, URL fetches,
\* calls of the underlying handler, calls of translateWithDeepSeek and
\* requests sent to the provider. Where the cache mutex is followed, lock is
\* the mode in which the request holds cacheMutex ("R", "W" or "") and site
\* is the caller of the getFromCache or addToCache it is in ("A", "B", "T").
\* walk is the record of processNode's calls of translateWithDeepSeek, and
\* submitted the text of the last request sent to the provider.
NewRequest(flow, url, lang, ctype) ==
    [pc |-> "idle", flow |-> flow, url |-> url, lang |-> lang, ctype |-> ctype,
     lock |-> "", site |-> "",
     body |-> "", doc |-> <<>>, idx |-> 0,
     text |-> "", cacheKey |-> "", translated |-> "",
     callNo |-> 0, callAt |-> 0, exp |-> 0, first |-> NoCall,
     resp |-> NoResponse,
     failure |-> "", hctype |-> "", processed |-> FALSE, walk |-> <<>>,
     submitted |-> "",
     lookups |-> 0, stores |-> 0, fetches |-> 0, nexts |-> 0,
     translates |-> 0, calls |-> 0]

Idle == NewRequest("", "", "", "")

Init ==
    /\ cache = <<>>
    /\ now = 0
    /\ apiKey \in ApiKeys
    /\ req = [r \in Requests |-> Idle]
    /\ started = 0
    /\ op = NoOp
    /\ puts = <<>>
    /\ nputs = 0
    /\ origin = <<>>
    /\ sent = {}

(***************************************************************************)
(* The clock                                                               *)
(***************************************************************************)
Tick ==
    \E d \in ClockSteps :
        /\ now + d <= MaxNow
        /\ now' = now + d
        /\ UNCHANGED <<cache, apiKey, req, started, op, puts, nputs, origin, sent>>

(***************************************************************************)
(* Direct use of the cache: put(primaryKey, language, content) and         *)
(* get(primaryKey, language)                                               *)
(***************************************************************************)
Put ==
    \E key \in PutKeys, lang \in PutLangs, content \in PutContents :
        /\ nputs < MaxPuts
        /\ nputs' = nputs + 1
        /\ cache' = addToCache(cache, key, lang, content)
        /\ puts' = <<[key |-> key, lang |-> lang, content |-> content,
                      at |-> now]>> \o puts
        /\ op' = NoOp
        /\ UNCHANGED <<now, apiKey, req, started, origin, sent>>

Get ==
    \E key \in PutKeys, lang \in PutLangs :
        LET res == getFromCache(key, lang) IN
        /\ op' = [kind |-> "get", key |-> key, lang |-> lang,
                  content |-> res.content, ok |-> res.ok, at |-> now]
        /\ UNCHANGED <<cache, now, apiKey, req, started, puts, nputs, origin, sent>>

NextCache == Put \/ Get \/ Tick

InitCache == Init /\ apiKey = ""

SpecCache == InitCache /\ [][NextCache]_vars

(***************************************************************************)
(* Direct use of the language negotiator: resolve(explicitOverride,        *)
(* acceptLanguageHeader)                                                   *)
(***************************************************************************)
\* the header a client builds from its candidates
RECURSIVE JoinComma(_)
JoinComma(cands) ==
    IF Len(cands) = 1 THEN cands[1]
    ELSE cands[1] \o "," \o JoinComma(Tail(cands))

Resolve ==
    \E override \in Overrides, cands \in CandidateLists :
        /\ op' = [kind |-> "resolve", override |-> override, cands |-> cands,
                  lang |-> ResolveLanguage(override, JoinComma(cands))]
        /\ UNCHANGED <<cache, now, apiKey, req, started, puts, nputs, origin, sent>>

NextLang == Resolve

SpecLang == InitCache /\ [][NextLang]_vars

(***************************************************************************)
(* Responses                                                               *)
(***************************************************************************)
\* c.Status(code).JSON(fiber.Map{"error": ...}), or a handler's error
ErrorResponse(status, error) ==
    [NoResponse EXCEPT !.status = status, !.error = error]

\* c.JSON(fiber.Map{"cached", "original", "translated", "language"})
JSONResponse(cached, original, translated, language) ==
    [NoResponse EXCEPT !.status = 200, !.cached = cached, !.original = original,
                       !.translated = translated, !.language = language]

\* c.SendString(body), or the body the underlying handler has set
BodyResponse(body) ==
    [NoResponse EXCEPT !.status = 200, !.body = body]

\* the handler returns: its locals are gone
Respond(rq, resp) ==
    [rq EXCEPT !.pc = "done", !.resp = resp, !.doc = <<>>, !.idx = 0,
               !.text = "", !.cacheKey = "", !.translated = "", !.site = ""]

\* a connection slot takes a new request when it has none in flight; the
\* lowest free slot is taken first
CanAccept(r) ==
    /\ started < MaxRequests
    /\ req[r].pc \in {"idle", "done"}
    /\ r = "r2" => req["r1"].pc \notin {"idle", "done"}

\* a cache write that adds to the content of the entry it finds
CacheWriteAppending(key, lang, content, by) ==
    LET k   == CacheKey(key, lang)
        old == IF k \in DOMAIN cache THEN cache[k].Content ELSE ""
    IN  /\ cache' = addToCache(cache, key, lang, old \o content)
        /\ origin' = Store(origin, k, [by |-> by, key |-> key, lang |-> lang,
                                       content |-> old \o content, at |-> now])

\* the cache write of request flow `by`, with its history
CacheWrite(key, lang, content, by) ==
    /\ cache' = addToCache(cache, key, lang, content)
    /\ origin' = Store(origin, CacheKey(key, lang),
                       [by |-> by, key |-> key, lang |-> lang,
                        content |-> content, at |-> now])

(***************************************************************************)
(* translateWithDeepSeek and callDeepSeekAPI                               *)
(***************************************************************************)
\* handleTranslateAPI takes the result of translateWithDeepSeek (lines 97-102);
\* the variant treats a failed translation as an empty one
ReturnAIgnoringError(rq, result, err) ==
    [rq EXCEPT !.translated = result, !.pc = "A_store"]

ReturnA(rq, result, err) ==
    IF err # ""
    THEN Respond(rq, ErrorResponse(503, "Translation service unavailable: " \o err))
    ELSE [rq EXCEPT !.translated = result, !.pc = "A_store"]

\* a walk that stops at the first node whose translation fails
ReturnBStopOnError(rq, result, err) ==
    LET doc  == IF err = ""
                THEN [rq.doc EXCEPT ![rq.idx].Data = result]
                ELSE rq.doc
        next == IF err = "" THEN NextTextNode(doc, rq.idx) ELSE 0
        seen == Append(rq.walk, [idx |-> rq.idx, text |-> rq.text,
                                 result |-> result, err |-> err])
    IN  IF next = 0
        THEN [rq EXCEPT !.doc = doc, !.walk = seen, !.pc = "B_store"]
        ELSE [rq EXCEPT !.doc = doc, !.walk = seen, !.idx = next,
                        !.text = doc[next].Data, !.pc = "T_lookup"]

\* processNode takes the result of translateWithDeepSeek and walks on
\* (lines 162-170)
ReturnB(rq, result, err) ==
    LET doc  == IF err = ""
                THEN [rq.doc EXCEPT ![rq.idx].Data = result]
                ELSE rq.doc
        next == NextTextNode(doc, rq.idx)
        seen == Append(rq.walk, [idx |-> rq.idx, text |-> rq.text,
                                 result |-> result, err |-> err])
    IN  IF next = 0
        THEN [rq EXCEPT !.doc = doc, !.walk = seen, !.pc = "B_store"]
        ELSE [rq EXCEPT !.doc = doc, !.walk = seen, !.idx = next,
                        !.text = doc[next].Data, !.pc = "T_lookup"]

\* the client of translate notes the outcome of its first call and calls
\* again with the same arguments
ReturnT(rq, result, err) ==
    LET call == [result |-> result, err |-> err, calls |-> rq.calls,
                 at |-> rq.callAt, exp |-> rq.exp]
    IN  IF rq.callNo = 1
        THEN [rq EXCEPT !.first = call, !.callNo = 2, !.calls = 0,
                        !.pc = "T_lookup"]
        ELSE Respond(rq, [NoResponse EXCEPT !.status = 200,
                                            !.translated = result,
                                            !.error = err])

\* what the caller of translateWithDeepSeek does with (result, err)
Return(rq, result, err) ==
    CASE rq.flow = "A" -> ReturnA(rq, result, err)
      [] rq.flow = "B" -> ReturnB(rq, result, err)
      [] rq.flow = "T" -> ReturnT(rq, result, err)

\* a translateWithDeepSeek without the cache short-circuit
translateLookupNoCache(rq, text) ==
    LET cacheKey == "text_" \o rq.lang \o "_" \o hashText(text)
        noted    == [rq EXCEPT !.translates = @ + 1,
                               !.callAt = IF rq.flow = "T" THEN now ELSE 0]
    IN  IF Len(TrimSpace(text)) = 0
        THEN Return(noted, text, "")
        ELSE [noted EXCEPT !.lookups = @ + 1, !.cacheKey = cacheKey,
                           !.pc = "T_call"]

\* lines 185-192: the blank test and the cache short-circuit
translateLookup(rq, text) ==
    LET cacheKey == "text_" \o rq.lang \o "_" \o hashText(text)
        cached   == getFromCache(cacheKey, "")
        noted    == [rq EXCEPT !.translates = @ + 1,
                               !.callAt = IF rq.flow = "T" THEN now ELSE 0]
    IN  IF Len(TrimSpace(text)) = 0
        THEN Return(noted, text, "")
        ELSE IF cached.ok
        THEN Return([noted EXCEPT !.lookups = @ + 1,
                                  !.exp = IF rq.flow = "T"
                                          THEN cache[cacheKey].Expiration ELSE 0],
                    cached.content, "")
        ELSE [noted EXCEPT !.lookups = @ + 1, !.cacheKey = cacheKey,
                           !.pc = "T_call"]

T_Lookup(r) ==
    /\ req[r].pc = "T_lookup"
    /\ req' = [req EXCEPT ![r] = translateLookup(req[r], req[r].text)]
    /\ UNCHANGED <<cache, now, apiKey, started, op, puts, nputs, origin, sent>>

\* a text submitted whole
TruncateNever(text) == text

\* lines 194-196
Truncate(text) ==
    IF Len(text) > MaxTextLength THEN SubSeq(text, 1, MaxTextLength) ELSE text

Translation(text, targetLang, variant) == targetLang \o ":" \o text \o variant

\* the outcomes of the HTTP exchange of callDeepSeekAPI (lines 212-259)
ProviderResults(text, targetLang) ==
    {[text |-> "", err |-> "HTTP request error"]}
    \cup {[text |-> Translation(text, targetLang, v), err |-> ""] : v \in Variants(text)}

\* a client that goes to the network without a key
NotConfiguredNever(key) == FALSE

\* lines 208-210
NotConfigured(key) == key = ""

\* lines 198-201, with callDeepSeekAPI
T_Call(r) ==
    LET rq   == req[r]
        text == Truncate(rq.text)
    IN  /\ rq.pc = "T_call"
        /\ \/ /\ NotConfigured(apiKey)
              /\ req' = [req EXCEPT ![r] =
                            Return([rq EXCEPT !.failure = "translate"], "",
                                   "translation error: API key not configured")]
              /\ UNCHANGED sent
           \/ /\ ~NotConfigured(apiKey)
              /\ \E res \in ProviderResults(text, rq.lang) :
                    LET called == [rq EXCEPT !.calls = @ + 1, !.submitted = text] IN
                    req' = [req EXCEPT ![r] =
                        IF res.err # ""
                        THEN Return([called EXCEPT !.failure = "translate"], "",
                                    "translation error: " \o res.err)
                        ELSE [called EXCEPT !.translated = res.text,
                                            !.pc = "T_store"]]
              /\ sent' = sent \cup {rq.lang}
        /\ UNCHANGED <<cache, now, apiKey, started, op, puts, nputs, origin>>

\* lines 203-204
T_Store(r) ==
    LET rq == req[r] IN
    /\ rq.pc = "T_store"
    /\ CacheWrite(rq.cacheKey, "", rq.translated, "T")
    /\ req' = [req EXCEPT ![r] =
                Return([rq EXCEPT !.stores = @ + 1,
                                  !.exp = IF rq.flow = "T"
                                          THEN now + CacheDuration ELSE 0],
                       rq.translated, "")]
    /\ UNCHANGED <<now, apiKey, started, op, puts, nputs, sent>>

\* a client that calls translate(text, lang) twice in succession
T_Begin(r) ==
    \E text \in Texts, lang \in TargetLangs :
        /\ CanAccept(r)
        /\ started' = started + 1
        /\ req' = [req EXCEPT ![r] =
                    [NewRequest("T", "", lang, "") EXCEPT !.text = text,
                                                          !.body = text,
                                                          !.callNo = 1,
                                                          !.pc = "T_lookup"]]
        /\ UNCHANGED <<cache, now, apiKey, op, puts, nputs, origin, sent>>

(***************************************************************************)
(* Flow A: handleTranslateAPI                                              *)
(***************************************************************************)
\* lines 72-88
A_Begin(r) ==
    \E c \in ApiRequests :
        LET url    == c.url
            lang   == ResolveLanguage(c.queryLang, c.acceptLang)
            rq     == NewRequest("A", url, lang, "")
            cached == getFromCache(url, lang)
        IN  /\ CanAccept(r)
            /\ started' = started + 1
            /\ req' = [req EXCEPT ![r] =
                IF url = ""
                THEN Respond([rq EXCEPT !.failure = "url"],
                             ErrorResponse(400, "URL is required"))
                ELSE IF cached.ok
                THEN Respond([rq EXCEPT !.lookups = 1],
                             JSONResponse(TRUE, cached.content, cached.content, lang))
                ELSE [rq EXCEPT !.lookups = 1, !.pc = "A_fetch"]]
            /\ UNCHANGED <<cache, now, apiKey, op, puts, nputs, origin, sent>>

\* lines 90-97, with extractContentFromURL
A_Fetch(r) ==
    LET rq == [req[r] EXCEPT !.fetches = @ + 1] IN
    /\ req[r].pc = "A_fetch"
    /\ \/ req' = [req EXCEPT ![r] =
                    Respond([rq EXCEPT !.failure = "fetch"], ErrorResponse(500,
                            "Failed to extract content: error accessing URL"))]
       \/ \E page \in Pages :
            LET content == extractText(Parse(page)) IN
            req' = [req EXCEPT ![r] = [rq EXCEPT !.body = content,
                                                 !.text = content,
                                                 !.pc = "T_lookup"]]
    /\ UNCHANGED <<cache, now, apiKey, started, op, puts, nputs, origin, sent>>

\* lines 104-111
A_Store(r) ==
    LET rq == req[r] IN
    /\ rq.pc = "A_store"
    /\ CacheWrite(rq.url, rq.lang, rq.translated, "A")
    /\ req' = [req EXCEPT ![r] =
                Respond([rq EXCEPT !.stores = @ + 1],
                        JSONResponse(FALSE, rq.body, rq.translated, rq.lang))]
    /\ UNCHANGED <<now, apiKey, started, op, puts, nputs, sent>>

(***************************************************************************)
(* Flow B: handleAutomaticTranslation                                      *)
(***************************************************************************)
\* a bypass that forgets the default language
BypassIgnoringLanguage(requestedURL, lang) ==
    \/ HasPrefix(requestedURL, "/api/")
    \/ isStaticFile(requestedURL)

\* lines 118-124: the requests passed to the next handler untouched
Bypass(requestedURL, lang) ==
    \/ HasPrefix(requestedURL, "/api/")
    \/ isStaticFile(requestedURL)
    \/ lang = DefaultLanguage

\* lines 115-128
B_Begin(r) ==
    \E c \in PageRequests :
        LET lang         == ResolveLanguage(c.queryLang, c.acceptLang)
            requestedURL == OriginalURL(c.path, c.queryLang)
            rq           == NewRequest("B", requestedURL, lang, c.ctype)
            cached       == getFromCache(requestedURL, lang)
        IN  /\ CanAccept(r)
            /\ started' = started + 1
            /\ req' = [req EXCEPT ![r] =
                IF Bypass(requestedURL, lang)
                THEN [rq EXCEPT !.pc = "B_pass"]
                ELSE IF cached.ok
                THEN Respond([rq EXCEPT !.lookups = 1], BodyResponse(cached.content))
                ELSE [rq EXCEPT !.lookups = 1, !.pc = "B_next"]]
            /\ UNCHANGED <<cache, now, apiKey, op, puts, nputs, origin, sent>>

\* lines 119 and 123: return c.Next()
B_Pass(r) ==
    LET rq == [req[r] EXCEPT !.nexts = @ + 1] IN
    /\ req[r].pc = "B_pass"
    /\ \/ req' = [req EXCEPT ![r] =
                    Respond([rq EXCEPT !.failure = "next"],
                            ErrorResponse(404, "Cannot GET"))]
       \/ \E h \in HandlerResponses :
            req' = [req EXCEPT ![r] =
                        Respond([rq EXCEPT !.body = h.body, !.hctype = h.ctype],
                                BodyResponse(h.body))]
    /\ UNCHANGED <<cache, now, apiKey, started, op, puts, nputs, origin, sent>>

\* lines 130-146 and 153-157: c.Next(), the content type test, html.Parse
B_Next(r) ==
    LET rq == [req[r] EXCEPT !.nexts = @ + 1] IN
    /\ req[r].pc = "B_next"
    /\ \/ req' = [req EXCEPT ![r] =
                    Respond([rq EXCEPT !.failure = "next"],
                            ErrorResponse(404, "Cannot GET"))]
       \/ \E h \in HandlerResponses, parsed \in BOOLEAN :
            LET got  == [rq EXCEPT !.body = h.body, !.hctype = h.ctype]
                html == [got EXCEPT !.processed = TRUE]
                doc  == Parse(h.body)
                next == NextTextNode(doc, 0)
            IN  req' = [req EXCEPT ![r] =
                    IF ~Contains(rq.ctype, "text/html")
                    THEN Respond(got, BodyResponse(h.body))
                    ELSE IF ~parsed
                    THEN Respond([html EXCEPT !.failure = "parse"],
                                 BodyResponse(h.body))
                    ELSE IF next = 0
                    THEN [html EXCEPT !.doc = doc, !.pc = "B_store"]
                    ELSE [html EXCEPT !.doc = doc, !.idx = next,
                                      !.text = doc[next].Data, !.pc = "T_lookup"]]
    /\ UNCHANGED <<cache, now, apiKey, started, op, puts, nputs, origin, sent>>

\* lines 175-180 and 143-150: html.Render, the cache write, the response
B_Store(r) ==
    LET rq == req[r]
        translatedHTML == Render(rq.doc)
    IN  /\ rq.pc = "B_store"
        /\ \/ /\ req' = [req EXCEPT ![r] =
                            Respond([rq EXCEPT !.failure = "render"],
                                    BodyResponse(rq.body))]
              /\ UNCHANGED <<cache, origin>>
           \/ /\ CacheWrite(rq.url, rq.lang, translatedHTML, "B")
              /\ req' = [req EXCEPT ![r] =
                            Respond([rq EXCEPT !.stores = @ + 1],
                                    BodyResponse(translatedHTML))]
        /\ UNCHANGED <<now, apiKey, started, op, puts, nputs, sent>>

(***************************************************************************)
(* Two clients of translate, each calling it once, concurrently            *)
(***************************************************************************)
T_Once(r) ==
    \E text \in PairTexts, lang \in TargetLangs :
        /\ CanAccept(r)
        /\ started' = started + 1
        /\ req' = [req EXCEPT ![r] =
                    [NewRequest("T", "", lang, "") EXCEPT !.text = text,
                                                          !.body = text,
                                                          !.callNo = 2,
                                                          !.pc = "T_lookup"]]
        /\ UNCHANGED <<cache, now, apiKey, op, puts, nputs, origin, sent>>

NextPair ==
    \/ Tick
    \/ \E r \in Requests :
        \/ T_Once(r)
        \/ T_Lookup(r)
        \/ T_Call(r)
        \/ T_Store(r)

SpecPair == Init /\ [][NextPair]_vars

(***************************************************************************)
(* processHTML on its own: a page request for which the underlying handler *)
(* has answered with an HTML document                                      *)
(***************************************************************************)
\* lines 140-141 and 154-172: html.Parse and the walk up to the first text node
D_Begin(r) ==
    \E htmlContent \in Documents, lang \in TargetLangs, parsed \in BOOLEAN :
        LET rq   == [NewRequest("B", "/d", lang, "text/html")
                        EXCEPT !.body = htmlContent, !.hctype = "text/html",
                               !.lookups = 1, !.nexts = 1, !.processed = TRUE]
            doc  == Parse(htmlContent)
            next == NextTextNode(doc, 0)
        IN  /\ CanAccept(r)
            /\ started' = started + 1
            /\ req' = [req EXCEPT ![r] =
                    IF ~parsed
                    THEN Respond([rq EXCEPT !.failure = "parse"],
                                 BodyResponse(htmlContent))
                    ELSE IF next = 0
                    THEN [rq EXCEPT !.doc = doc, !.pc = "B_store"]
                    ELSE [rq EXCEPT !.doc = doc, !.idx = next,
                                    !.text = doc[next].Data, !.pc = "T_lookup"]]
            /\ UNCHANGED <<cache, now, apiKey, op, puts, nputs, origin, sent>>

NextDoc ==
    \/ Tick
    \/ D_Begin("r1")
    \/ T_Lookup("r1")
    \/ T_Call("r1")
    \/ T_Store("r1")
    \/ B_Store("r1")

SpecDoc == Init /\ [][NextDoc]_vars

(***************************************************************************)
(* The same flows with the steps of cacheMutex: getFromCache is            *)
(* RLock, then Load and the deferred RUnlock; addToCache is Lock, Store,   *)
(* Unlock. Between them a request is at "fetch" (extractContentFromURL in  *)
(* flight), "next" (c.Next() in flight), "call" (callDeepSeekAPI in        *)
(* flight) or "render".                                                    *)
(***************************************************************************)
\* the arguments of the getFromCache or addToCache the request is in
OpKey(rq) ==
    IF rq.site = "T" THEN "text_" \o rq.lang \o "_" \o hashText(rq.text)
    ELSE rq.url

OpLang(rq) == IF rq.site = "T" THEN "" ELSE rq.lang

\* a getFromCache that returns with the read lock still held
RUnlockForgotten(rq) == rq

\* defer cacheMutex.RUnlock() (line 346)
RUnlock(rq) == [rq EXCEPT !.lock = ""]

\* cacheMutex.Unlock() (line 336)
Unlock(rq) == [rq EXCEPT !.lock = ""]

\* the caller of translateWithDeepSeek goes on with (result, err) up to its
\* next call of the cache (lines 97-104 and 162-178)
L_Return(rq, result, err) ==
    IF rq.flow = "A"
    THEN IF err # ""
         THEN Respond(rq, ErrorResponse(503, "Translation service unavailable: " \o err))
         ELSE [rq EXCEPT !.translated = result, !.site = "A", !.pc = "put_lock"]
    ELSE LET doc  == IF err = ""
                     THEN [rq.doc EXCEPT ![rq.idx].Data = result]
                     ELSE rq.doc
             next == NextTextNode(doc, rq.idx)
         IN  IF next = 0
             THEN [rq EXCEPT !.doc = doc, !.site = "", !.pc = "render"]
             ELSE [rq EXCEPT !.doc = doc, !.idx = next, !.text = doc[next].Data,
                             !.site = "T", !.pc = "get_rlock"]

\* translateWithDeepSeek up to its getFromCache (lines 185-190)
L_Translate(rq, text) ==
    IF Len(TrimSpace(text)) = 0
    THEN L_Return(rq, text, "")
    ELSE [rq EXCEPT !.text = text, !.site = "T", !.pc = "get_rlock"]

\* lines 72-81
LA_Begin(r) ==
    \E c \in LockApiRequests :
        LET lang == ResolveLanguage(c.queryLang, c.acceptLang)
            rq   == NewRequest("A", c.url, lang, "")
        IN  /\ CanAccept(r)
            /\ started' = started + 1
            /\ req' = [req EXCEPT ![r] =
                IF c.url = ""
                THEN Respond(rq, ErrorResponse(400, "URL is required"))
                ELSE [rq EXCEPT !.site = "A", !.pc = "get_rlock"]]
            /\ UNCHANGED <<cache, now, apiKey, op, puts, nputs, origin, sent>>

\* lines 115-126
LB_Begin(r) ==
    \E c \in LockPageRequests :
        LET lang         == ResolveLanguage(c.queryLang, c.acceptLang)
            requestedURL == OriginalURL(c.path, c.queryLang)
            rq           == NewRequest("B", requestedURL, lang, c.ctype)
        IN  /\ CanAccept(r)
            /\ started' = started + 1
            /\ req' = [req EXCEPT ![r] =
                IF Bypass(requestedURL, lang)
                THEN [rq EXCEPT !.pc = "pass"]
                ELSE [rq EXCEPT !.site = "B", !.pc = "get_rlock"]]
            /\ UNCHANGED <<cache, now, apiKey, op, puts, nputs, origin, sent>>

\* cacheMutex.RLock() (line 345): waits while a writer holds the mutex
G_RLock(r) ==
    /\ req[r].pc = "get_rlock"
    /\ \A q \in Requests : req[q].lock # "W"
    /\ req' = [req EXCEPT ![r] = [req[r] EXCEPT !.lock = "R", !.pc = "get_load"]]
    /\ UNCHANGED <<cache, now, apiKey, started, op, puts, nputs, origin, sent>>

\* lines 348-354: Load, the expiration test and the return of getFromCache;
\* then the caller up to its next blocking call
G_Load(r) ==
    LET cached == getFromCache(OpKey(req[r]), OpLang(req[r]))
        rq     == RUnlock(req[r])
    IN  /\ req[r].pc = "get_load"
        /\ req' = [req EXCEPT ![r] =
            CASE rq.site = "A" ->
                    IF cached.ok
                    THEN Respond(rq, JSONResponse(TRUE, cached.content,
                                                  cached.content, rq.lang))
                    ELSE [rq EXCEPT !.site = "", !.pc = "fetch"]
              [] rq.site = "B" ->
                    IF cached.ok
                    THEN Respond(rq, BodyResponse(cached.content))
                    ELSE [rq EXCEPT !.site = "", !.pc = "next"]
              [] rq.site = "T" ->
                    IF cached.ok
                    THEN L_Return(rq, cached.content, "")
                    ELSE [rq EXCEPT !.site = "", !.pc = "call"]]
        /\ UNCHANGED <<cache, now, apiKey, started, op, puts, nputs, origin, sent>>

\* lines 90-97: extractContentFromURL returns
L_Fetch(r) ==
    LET rq == req[r] IN
    /\ rq.pc = "fetch"
    /\ \/ req' = [req EXCEPT ![r] =
                    Respond(rq, ErrorResponse(500,
                            "Failed to extract content: error accessing URL"))]
       \/ \E page \in Pages :
            LET content == extractText(Parse(page)) IN
            req' = [req EXCEPT ![r] =
                        L_Translate([rq EXCEPT !.body = content], content)]
    /\ UNCHANGED <<cache, now, apiKey, started, op, puts, nputs, origin, sent>>

\* lines 119 and 123: the c.Next() of a bypassed request returns
L_Pass(r) ==
    LET rq == req[r] IN
    /\ rq.pc = "pass"
    /\ \/ req' = [req EXCEPT ![r] = Respond(rq, ErrorResponse(404, "Cannot GET"))]
       \/ \E h \in HandlerResponses :
            req' = [req EXCEPT ![r] =
                        Respond([rq EXCEPT !.body = h.body], BodyResponse(h.body))]
    /\ UNCHANGED <<cache, now, apiKey, started, op, puts, nputs, origin, sent>>

\* lines 130-141 and 154-172: c.Next() returns; the content type test,
\* html.Parse and the walk up to the first text node
L_Next(r) ==
    LET rq == req[r] IN
    /\ rq.pc = "next"
    /\ \/ req' = [req EXCEPT ![r] = Respond(rq, ErrorResponse(404, "Cannot GET"))]
       \/ \E h \in HandlerResponses, parsed \in BOOLEAN :
            LET got  == [rq EXCEPT !.body = h.body]
                doc  == Parse(h.body)
                next == NextTextNode(doc, 0)
            IN  req' = [req EXCEPT ![r] =
                    IF ~Contains(rq.ctype, "text/html") \/ ~parsed
                    THEN Respond(got, BodyResponse(h.body))
                    ELSE IF next = 0
                    THEN [got EXCEPT !.doc = doc, !.pc = "render"]
                    ELSE [got EXCEPT !.doc = doc, !.idx = next,
                                     !.text = doc[next].Data,
                                     !.site = "T", !.pc = "get_rlock"]]
    /\ UNCHANGED <<cache, now, apiKey, started, op, puts, nputs, origin, sent>>

\* lines 194-201: callDeepSeekAPI returns
L_Call(r) ==
    LET rq == req[r] IN
    /\ rq.pc = "call"
    /\ \/ /\ NotConfigured(apiKey)
          /\ req' = [req EXCEPT ![r] =
                        L_Return(rq, "", "translation error: API key not configured")]
       \/ /\ ~NotConfigured(apiKey)
          /\ \E res \in ProviderResults(Truncate(rq.text), rq.lang) :
                req' = [req EXCEPT ![r] =
                    IF res.err # ""
                    THEN L_Return(rq, "", "translation error: " \o res.err)
                    ELSE [rq EXCEPT !.translated = res.text, !.site = "T",
                                    !.pc = "put_lock"]]
    /\ UNCHANGED <<cache, now, apiKey, started, op, puts, nputs, origin, sent>>

\* lines 174-178 and 142-147: html.Render returns
L_Render(r) ==
    LET rq == req[r] IN
    /\ rq.pc = "render"
    /\ \/ req' = [req EXCEPT ![r] = Respond(rq, BodyResponse(rq.body))]
       \/ req' = [req EXCEPT ![r] =
                    [rq EXCEPT !.translated = Render(rq.doc), !.site = "B",
                               !.pc = "put_lock"]]
    /\ UNCHANGED <<cache, now, apiKey, started, op, puts, nputs, origin, sent>>

\* cacheMutex.Lock() (line 331): waits while anyone holds the mutex
P_Lock(r) ==
    /\ req[r].pc = "put_lock"
    /\ \A q \in Requests : req[q].lock = ""
    /\ req' = [req EXCEPT ![r] = [req[r] EXCEPT !.lock = "W", !.pc = "put_store"]]
    /\ UNCHANGED <<cache, now, apiKey, started, op, puts, nputs, origin, sent>>

\* translationCache.Store (lines 332-335)
P_Store(r) ==
    LET rq == req[r] IN
    /\ rq.pc = "put_store"
    /\ CacheWrite(OpKey(rq), OpLang(rq), rq.translated, rq.site)
    /\ req' = [req EXCEPT ![r] = [rq EXCEPT !.pc = "put_unlock"]]
    /\ UNCHANGED <<now, apiKey, started, op, puts, nputs, sent>>

\* cacheMutex.Unlock() and the return of addToCache; then the caller up to
\* its next call of the cache (lines 204, 106-111, 150)
P_Unlock(r) ==
    LET rq == Unlock(req[r]) IN
    /\ req[r].pc = "put_unlock"
    /\ req' = [req EXCEPT ![r] =
        CASE rq.site = "T" -> L_Return(rq, rq.translated, "")
          [] rq.site = "A" ->
                Respond(rq, JSONResponse(FALSE, rq.body, rq.translated, rq.lang))
          [] rq.site = "B" -> Respond(rq, BodyResponse(rq.translated))]
    /\ UNCHANGED <<cache, now, apiKey, started, op, puts, nputs, origin, sent>>

NextLock ==
    \/ Tick
    \/ \E r \in Requests :
        \/ LA_Begin(r)
        \/ LB_Begin(r)
        \/ G_RLock(r)
        \/ G_Load(r)
        \/ L_Fetch(r)
        \/ L_Pass(r)
        \/ L_Next(r)
        \/ L_Call(r)
        \/ L_Render(r)
        \/ P_Lock(r)
        \/ P_Store(r)
        \/ P_Unlock(r)

SpecLock == Init /\ [][NextLock]_vars

(***************************************************************************)
(* The server: requests of both flows, served concurrently                 *)
(***************************************************************************)
Next ==
    \/ Tick
    \/ \E r \in Requests :
        \/ A_Begin(r)
        \/ A_Fetch(r)
        \/ A_Store(r)
        \/ B_Begin(r)
        \/ B_Pass(r)
        \/ B_Next(r)
        \/ B_Store(r)
        \/ T_Lookup(r)
        \/ T_Call(r)
        \/ T_Store(r)

Spec == Init /\ [][Next]_vars

(***************************************************************************)
(* A single client of translate, calling it twice in succession            *)
(***************************************************************************)
NextTr ==
    \/ Tick
    \/ T_Begin("r1")
    \/ T_Lookup("r1")
    \/ T_Call("r1")
    \/ T_Store("r1")

SpecTr == Init /\ [][NextTr]_vars

(***************************************************************************)
(* Properties of the cache                                                 *)
(***************************************************************************)
\* the direct puts that went to the slot of (key, lang), latest first
PutsTo(key, lang) ==
    SelectSeq(puts, LAMBDA p : CacheKey(p.key, p.lang) = CacheKey(key, lang))

Found(content) == [content |-> content, ok |-> TRUE]

\* C1: get(primaryKey, language) returns found=true only when an entry for
\* that key exists whose expiration instant is strictly later than now, and
\* once 24h have elapsed since the last put on the key, get returns not-found.
C1_NeverReturnedPastExpiration ==
    op.kind = "get" =>
        LET slot == CacheKey(op.key, op.lang)
            to   == PutsTo(op.key, op.lang)
        IN  /\ op.ok =>
                /\ slot \in DOMAIN cache
                /\ op.at < cache[slot].Expiration
                /\ to # <<>>
                /\ op.at < to[1].at + CacheDuration
            /\ (to # <<>> /\ op.at >= to[1].at + CacheDuration) => ~op.ok

C1_Witness ==
    /\ op.kind = "get"
    /\ ~op.ok
    /\ PutsTo(op.key, op.lang) # <<>>
    /\ op.at >= PutsTo(op.key, op.lang)[1].at + CacheDuration

\* C2: two puts with the same primary key and different languages occupy
\* distinct slots: within the TTL, in either order of the two puts, each get
\* returns the content put under its own language; and two puts with the
\* identical (key, language) hit the same slot, the later one overwriting
\* the earlier.
C2_LanguagesDoNotCollide ==
    Len(puts) >= 2 =>
        LET later == puts[1]
            earlier == puts[2]
        IN  earlier.key = later.key =>
                /\ (earlier.lang # later.lang /\ now < earlier.at + CacheDuration) =>
                        /\ getFromCache(earlier.key, earlier.lang) = Found(earlier.content)
                        /\ getFromCache(later.key, later.lang) = Found(later.content)
                /\ (earlier.lang = later.lang /\ now < later.at + CacheDuration) =>
                        /\ getFromCache(later.key, later.lang) = Found(later.content)
                        /\ CacheKey(earlier.key, earlier.lang) = CacheKey(later.key, later.lang)

C2_Witness ==
    /\ Len(puts) >= 2
    /\ puts[1].key = puts[2].key
    /\ puts[1].lang # puts[2].lang
    /\ puts[1].lang # ""
    /\ puts[2].lang # ""
    /\ puts[1].content # puts[2].content
    /\ now > puts[1].at
    /\ now < puts[2].at + CacheDuration

(***************************************************************************)
(* Properties of translate                                                 *)
(***************************************************************************)
\* the client has made both of its calls of translate(text, lang), the
\* second within the TTL window of the first
TwoCalls(rq) ==
    /\ rq.flow = "T"
    /\ rq.pc = "done"
    /\ rq.body # ""
    /\ rq.lang # DefaultLanguage
    /\ rq.callAt < rq.first.at + CacheDuration

\* C3 as claimed: two successive calls to translate(T, L) within the TTL
\* window invoke the provider at most once in total and the second call's
\* result equals the first's, whatever the outcome of the first call.
C3_AtMostOneProviderCall ==
    \A r \in Requests :
        LET rq == req[r] IN
        TwoCalls(rq) =>
            /\ rq.first.calls + rq.calls <= 1
            /\ rq.resp.translated = rq.first.result
            /\ rq.resp.error = rq.first.err

\* C3 as amended: when the first of two successive calls to translate(T, L)
\* succeeds and the second is made within the TTL window, the provider is
\* invoked at most once in total, and the second call returns the first
\* call's result as long as the cache entry the first call read or wrote has
\* not expired (always so when the first call's result came from the provider).
C3_AtMostOneCallAfterSuccess ==
    \A r \in Requests :
        LET rq == req[r] IN
        (TwoCalls(rq) /\ rq.first.err = "") =>
            /\ rq.first.calls + rq.calls <= 1
            /\ (TrimSpace(rq.body) = "" \/ rq.callAt < rq.first.exp) =>
                    /\ rq.calls = 0
                    /\ rq.resp.translated = rq.first.result
                    /\ rq.resp.error = ""
            /\ rq.first.calls = 1 => rq.callAt < rq.first.exp

C3_Witness ==
    \E r \in Requests :
        LET rq == req[r] IN
        /\ TwoCalls(rq)
        /\ rq.first.err = ""
        /\ rq.first.calls = 1
        /\ rq.calls = 0
        /\ rq.callAt > rq.first.at
        /\ rq.resp.translated = rq.first.result
        /\ rq.resp.translated = Translation(rq.body, rq.lang, "")

(***************************************************************************)
(* Properties of the request flows                                         *)
(***************************************************************************)
\* the path of a requested URL, without its query string
RequestPath(requestedURL) == Split(requestedURL, "?")[1]

\* C4: a Flow B request whose path has a static-asset extension, also when a
\* query string follows the path, never invokes translation and neither
\* reads nor writes the cache.
C4_StaticAssetsBypass ==
    \A r \in Requests :
        LET rq == req[r] IN
        (rq.flow = "B" /\ isStaticFile(RequestPath(rq.url))) =>
            /\ rq.translates = 0
            /\ rq.lookups = 0
            /\ rq.stores = 0

\* C5: over all requests of both flows, no provider call has been made with
\* target language en and no cache entry keyed with language en was written.
C5_DefaultLanguageNeverTranslated ==
    /\ DefaultLanguage \notin sent
    /\ \A k \in DOMAIN origin : origin[k].lang # DefaultLanguage

\* C6: a Flow B request whose resolved language is en never calls translate,
\* never looks up or writes the cache, and answers with what the underlying
\* handler produced, unchanged.
C6_DefaultLanguagePassesThrough ==
    \A r \in Requests :
        LET rq == req[r] IN
        (rq.flow = "B" /\ rq.lang = DefaultLanguage) =>
            /\ rq.translates = 0
            /\ rq.lookups = 0
            /\ rq.stores = 0
            /\ rq.calls = 0
            /\ ~rq.processed
            /\ rq.pc = "done" =>
                /\ rq.nexts = 1
                /\ rq.failure = "" => rq.resp = BodyResponse(rq.body)

C6_Witness ==
    \E r \in Requests :
        LET rq == req[r] IN
        /\ rq.flow = "B"
        /\ rq.lang = DefaultLanguage
        /\ rq.pc = "done"
        /\ rq.resp.status = 200
        /\ rq.hctype = "text/html"
        /\ \E k \in DOMAIN cache :
            /\ origin[k].by = "B"
            /\ origin[k].key = rq.url
            /\ origin[k].lang # DefaultLanguage
            /\ now < cache[k].Expiration
            /\ cache[k].Content # rq.resp.body

\* C7: Flow B never returns a hard error: a request that was not bypassed
\* is answered with the translated or the original body, whatever the
\* underlying handler, the HTML pipeline and the provider do.
C7_FlowBNeverFails ==
    \A r \in Requests :
        LET rq == req[r] IN
        (rq.flow = "B" /\ rq.pc = "done" /\ rq.lookups >= 1) =>
            /\ rq.resp.error = ""
            /\ rq.resp.status = 200

\* C8: a failing Flow A request gets the error of its failing step and
\* writes nothing to the cache: an empty url gives 400 before any cache
\* lookup, fetch or provider call; a fetch failure gives 500 with no provider
\* call; a translation failure gives 503.
C8_FlowAFailures ==
    \A r \in Requests :
        LET rq == req[r] IN
        (rq.flow = "A" /\ rq.pc = "done") =>
            /\ rq.url = "" =>
                /\ rq.failure = "url"
                /\ rq.lookups = 0 /\ rq.fetches = 0 /\ rq.translates = 0
                /\ rq.calls = 0
            /\ rq.failure = "url" => rq.resp.status = 400
            /\ rq.failure = "fetch" =>
                /\ rq.resp.status = 500
                /\ rq.translates = 0 /\ rq.calls = 0
            /\ rq.failure = "translate" => rq.resp.status = 503
            /\ rq.failure # "" => (rq.stores = 0 /\ rq.resp.error # "")
            /\ rq.resp.status # 200 => rq.stores = 0

C8_Witness ==
    \E r \in Requests :
        LET rq == req[r] IN
        /\ rq.flow = "A"
        /\ rq.pc = "done"
        /\ rq.failure = "translate"
        /\ rq.calls = 1
        /\ rq.resp.status = 503
        /\ rq.stores = 0

\* request r is accepted in this step as a Flow A request for (url, lang)
AcceptsA(r) ==
    /\ req[r].pc \in {"idle", "done"}
    /\ req'[r] # req[r]
    /\ req'[r].flow = "A"

\* the slot of (url, lang) was last written by a Flow A request for that
\* (url, lang), less than 24h ago
WrittenByA(url, lang) ==
    LET k == CacheKey(url, lang) IN
    /\ k \in DOMAIN origin
    /\ origin[k].by = "A"
    /\ origin[k].key = url
    /\ origin[k].lang = lang
    /\ now < origin[k].at + CacheDuration

\* C9: after a Flow A request for (url, language) has missed the cache and
\* succeeded with translated text X, a later Flow A request for the same
\* (url, language) before 24h have elapsed, with no write to that key in
\* between, returns cached=true with translated = X and makes neither a URL
\* fetch nor a provider call.
C9_ServedFromCache ==
    [][\A r \in Requests :
        (AcceptsA(r) /\ WrittenByA(req'[r].url, req'[r].lang)) =>
            /\ req'[r].pc = "done"
            /\ req'[r].resp.status = 200
            /\ req'[r].resp.cached
            /\ req'[r].resp.translated
                    = origin[CacheKey(req'[r].url, req'[r].lang)].content
            /\ req'[r].fetches = 0
            /\ req'[r].calls = 0
            /\ req'[r].translates = 0]_vars

C9_Witness ==
    \E r \in Requests :
        LET rq == req[r] IN
        /\ rq.flow = "A"
        /\ rq.pc = "done"
        /\ rq.resp.cached
        /\ rq.fetches = 0
        /\ rq.calls = 0
        /\ LET k == CacheKey(rq.url, rq.lang) IN
            /\ k \in DOMAIN origin
            /\ origin[k].by = "A"
            /\ now > origin[k].at
            /\ now < origin[k].at + CacheDuration
            /\ rq.resp.translated = origin[k].content
            /\ rq.resp.translated = Translation("Hi", rq.lang, "")

\* C10: a Flow B request that misses the cache and reaches the underlying
\* handler returns the handler's body unmodified, without translation or
\* cache write, if the content type of the handler's response is not HTML,
\* and passes the document to processHTML if it is.
C10_ResponseContentTypeDecides ==
    \A r \in Requests :
        LET rq == req[r] IN
        (/\ rq.flow = "B"
         /\ rq.pc = "done"
         /\ rq.lookups >= 1
         /\ rq.nexts = 1
         /\ rq.failure # "next") =>
            IF Contains(rq.hctype, "text/html")
            THEN rq.processed
            ELSE /\ rq.resp = BodyResponse(rq.body)
                 /\ rq.translates = 0
                 /\ rq.stores = 0
                 /\ ~rq.processed

(***************************************************************************)
(* Properties of the language negotiator                                   *)
(***************************************************************************)
\* the primary subtag of a candidate lang[-region][;q=weight], lower-cased
\* and cut to 2 characters
PrimarySubtag(cand) ==
    LET semi  == IndexOf(cand, ";")
        tag   == TrimSpace(IF semi = 0 THEN cand ELSE SubSeq(cand, 1, semi - 1))
        dash  == IndexOf(tag, "-")
        first == ToLower(IF dash = 0 THEN tag ELSE SubSeq(tag, 1, dash - 1))
    IN  SubSeq(first, 1, IF Len(first) > 2 THEN 2 ELSE Len(first))

\* the first candidate of the list whose primary subtag is supported, 0 if none
FirstSupported(cands) ==
    IF \E i \in 1..Len(cands) : PrimarySubtag(cands[i]) \in Supported
    THEN CHOOSE i \in 1..Len(cands) :
            /\ PrimarySubtag(cands[i]) \in Supported
            /\ \A j \in 1..(i - 1) : PrimarySubtag(cands[j]) \notin Supported
    ELSE 0

\* C11: language resolution always returns a value: a non-empty override is
\* returned verbatim; otherwise the result is the first candidate, in header
\* order and ignoring q-weights, whose lower-cased primary subtag cut to 2
\* characters is supported; otherwise it is en. Without an override the
\* result is always a member of the supported set.
C11_ResolveLanguage ==
    op.kind = "resolve" =>
        LET first == FirstSupported(op.cands) IN
        /\ op.override # "" => op.lang = op.override
        /\ op.override = "" =>
            /\ op.lang \in Supported
            /\ first # 0 => op.lang = PrimarySubtag(op.cands[first])
            /\ first = 0 => op.lang = DefaultLanguage
        /\ (op.override = "" /\ op.cands = <<"fr-CA;q=0.9", "en;q=0.5">>) => op.lang = "fr"
        /\ (op.override = "" /\ op.cands = <<"xx-XX">>) => op.lang = "en"

C11_Witness ==
    /\ op.kind = "resolve"
    /\ op.override = ""
    /\ op.cands = <<"xx-XX", "ja;q=0.1">>
    /\ op.lang = "ja"

(***************************************************************************)
(* Properties of the cache mutex                                           *)
(***************************************************************************)
\* the request has a provider call, a URL fetch or a call of the underlying
\* handler in flight
InFlight(rq) == rq.pc \in {"call", "fetch", "next", "pass"}

\* C12: in every reachable state of any interleaving of concurrent requests,
\* no request holds the cache lock, in read or write mode, while it has a
\* provider call, a URL fetch or an underlying-handler call in flight: the
\* lock is held only across the single cache load or store.
C12_NoLockAcrossCalls ==
    \A r \in Requests :
        LET rq == req[r] IN
        /\ InFlight(rq) => rq.lock = ""
        /\ rq.lock = "R" => rq.pc = "get_load"
        /\ rq.lock = "W" => rq.pc \in {"put_store", "put_unlock"}
        /\ rq.pc \in {"idle", "done", "render"} => rq.lock = ""

C12_Witness ==
    /\ req["r1"].pc = "call"
    /\ req["r1"].flow = "B"
    /\ req["r2"].lock = "W"
    /\ req["r2"].pc = "put_store"
    /\ req["r2"].site = "T"

(***************************************************************************)
(* Properties of processHTML                                               *)
(***************************************************************************)
\* the positions of the text nodes with non-blank content, in document order
TextNodeIndexes(doc) ==
    SelectSeq([j \in 1..Len(doc) |-> j], LAMBDA j : Translatable(doc[j]))

\* the document after the walk: the nodes in their order, a node whose
\* translation succeeded with the text translate returned, any other node as
\* it was
Walked(doc, walk) ==
    [j \in 1..Len(doc) |->
        IF \E i \in 1..Len(walk) : walk[i].idx = j /\ walk[i].err = ""
        THEN LET i == CHOOSE i \in 1..Len(walk) : walk[i].idx = j /\ walk[i].err = ""
             IN  [doc[j] EXCEPT !.Data = walk[i].result]
        ELSE doc[j]]

\* processHTML has parsed the document and finished its walk
WalkOver(rq) ==
    /\ rq.flow = "B"
    /\ rq.processed
    /\ rq.failure # "parse"
    /\ rq.pc \in {"B_store", "done"}

\* C13: for any document and any subset of text nodes whose translation
\* fails, the walk visits every text node with non-blank content exactly once
\* in document order, each failing node keeps its original text, each
\* succeeding node gets the text translate returned, and the operation
\* succeeds with the nodes in their original order: no translation failure
\* makes processHTML fail.
C13_WalkCompletes ==
    \A r \in Requests :
        LET rq  == req[r]
            doc == Parse(rq.body)
        IN  WalkOver(rq) =>
                /\ [i \in 1..Len(rq.walk) |-> rq.walk[i].idx] = TextNodeIndexes(doc)
                /\ \A i \in 1..Len(rq.walk) :
                        /\ rq.walk[i].text = doc[rq.walk[i].idx].Data
                        /\ rq.walk[i].err # "" => rq.walk[i].result = ""
                /\ rq.pc = "B_store" => rq.doc = Walked(doc, rq.walk)
                /\ (rq.pc = "done" /\ rq.failure # "render") =>
                        rq.resp = BodyResponse(Render(Walked(doc, rq.walk)))

C13_Witness ==
    \E r \in Requests :
        LET rq == req[r] IN
        /\ WalkOver(rq)
        /\ rq.pc = "done"
        /\ rq.body = "<p> </p><i>A</i> <u>B</u>"
        /\ Len(rq.walk) = 2
        /\ rq.walk[1].err # ""
        /\ rq.walk[2].err = ""
        /\ rq.walk[2].result = Translation("B", rq.lang, "")
        /\ rq.resp.body = "<html><head></head><body><p> </p><i>A</i> <u>"
                            \o rq.lang \o ":B</u></body></html>"

(***************************************************************************)
(* Properties of the text submitted to the provider                        *)
(***************************************************************************)
\* the client's call of translate(text, lang) has reached the provider
ReachedProvider(rq) ==
    /\ rq.flow = "T"
    /\ rq.calls + rq.first.calls >= 1

\* C14: for every translate call that reaches the provider, the text
\* submitted has length at most 5000 and is a prefix of the caller's input
\* text, equal to the input when the input is not longer than 5000.
C14_SubmittedTextIsPrefix ==
    \A r \in Requests :
        LET rq == req[r] IN
        ReachedProvider(rq) =>
            /\ Len(rq.submitted) <= MaxTextLength
            /\ HasPrefix(rq.body, rq.submitted)
            /\ Len(rq.body) <= MaxTextLength => rq.submitted = rq.body
            /\ Len(rq.body) > MaxTextLength => Len(rq.submitted) = MaxTextLength

C14_Witness ==
    \E r \in Requests :
        LET rq == req[r] IN
        /\ ReachedProvider(rq)
        /\ rq.pc = "done"
        /\ Len(rq.body) = MaxTextLength + 1
        /\ Len(rq.submitted) = MaxTextLength
        /\ rq.resp.translated = Translation(rq.submitted, rq.lang, "")

(***************************************************************************)
(* Properties of translate without an API key                              *)
(***************************************************************************)
\* the client has made both of its calls of translate(text, lang) and no API
\* key is configured
CalledWithoutKey(rq) ==
    /\ apiKey = ""
    /\ rq.flow = "T"
    /\ rq.pc = "done"

\* both calls failed with the error of the missing key
FailedNotConfigured(rq) ==
    /\ rq.first.err = "translation error: API key not configured"
    /\ rq.resp.error = "translation error: API key not configured"
    /\ rq.first.result = ""
    /\ rq.resp.translated = ""

\* no request went to the provider and the cache was not written
NothingSentNothingStored(rq) ==
    /\ rq.first.calls = 0
    /\ rq.calls = 0
    /\ sent = {}
    /\ rq.stores = 0
    /\ cache = <<>>

\* C15 as claimed: when no API key is configured, every translate call fails
\* with a NotConfigured error, no network call to the provider is attempted
\* and no entry is written to the cache.
C15_EveryCallFailsNotConfigured ==
    \A r \in Requests :
        LET rq == req[r] IN
        CalledWithoutKey(rq) =>
            /\ FailedNotConfigured(rq)
            /\ NothingSentNothingStored(rq)

\* C15 as amended: when no API key is configured, every translate call whose
\* text is not empty or whitespace-only fails with a NotConfigured error; a
\* call with empty or whitespace-only text returns its input without error;
\* in both cases no network call to the provider is attempted and translate
\* writes no entry to the cache.
C15_NonBlankCallsFailNotConfigured ==
    \A r \in Requests :
        LET rq == req[r] IN
        CalledWithoutKey(rq) =>
            /\ TrimSpace(rq.body) # "" => FailedNotConfigured(rq)
            /\ TrimSpace(rq.body) = "" =>
                    /\ rq.first.err = "" /\ rq.first.result = rq.body
                    /\ rq.resp.error = "" /\ rq.resp.translated = rq.body
            /\ NothingSentNothingStored(rq)

C15_Witness ==
    \E r \in Requests :
        LET rq == req[r] IN
        /\ CalledWithoutKey(rq)
        /\ rq.body = "Hi"
        /\ rq.translates = 2
        /\ FailedNotConfigured(rq)
        /\ NothingSentNothingStored(rq)

(***************************************************************************)
(* Properties of concurrent calls of translate                             *)
(***************************************************************************)
\* the cache key translate uses for (text, lang)
TextKey(text, lang) == "text_" \o lang \o "_" \o hashText(text)

\* r1 and r2 have both called translate with the same (text, language),
\* both have missed the cache and called the provider, and both are done;
\* no one else has called translate
BothMissed ==
    /\ started = 2
    /\ \A r \in Requests :
            /\ req[r].flow = "T"
            /\ req[r].pc = "done"
            /\ req[r].calls = 1
    /\ req["r1"].body = req["r2"].body
    /\ req["r1"].lang = req["r2"].lang

\* the translations the provider returned to them, and when their cache
\* entries expire
ProviderAnswers ==
    {req[r].resp.translated : r \in {q \in Requests : req[q].resp.error = ""}}

AnswerExpirations ==
    {req[r].exp : r \in {q \in Requests : req[q].resp.error = ""}}

\* C16: concurrent identical cache misses are not coalesced but stay
\* consistent: two requests that concurrently miss on the same (text,
\* language) can both call the provider, and once both have completed the
\* cache holds exactly one entry for that key, whose content is the result of
\* one of those provider calls and which a following get within the TTL
\* returns. (When neither provider call gives a result, nothing is stored.)
C16_ConcurrentMissesConsistent ==
    BothMissed =>
        LET k == TextKey(req["r1"].body, req["r1"].lang) IN
        IF ProviderAnswers = {}
        THEN cache = <<>>
        ELSE /\ DOMAIN cache = {k}
             /\ cache[k].Content \in ProviderAnswers
             /\ cache[k].Expiration \in AnswerExpirations
             /\ \A e \in AnswerExpirations : e <= cache[k].Expiration
             /\ now < cache[k].Expiration =>
                    getFromCache(k, "") = Found(cache[k].Content)

C16_Witness ==
    /\ BothMissed
    /\ req["r1"].resp.error = ""
    /\ req["r2"].resp.error = ""
    /\ req["r1"].resp.translated # req["r2"].resp.translated
    /\ req["r1"].exp = req["r2"].exp
    /\ now > 0
    /\ getFromCache(TextKey(req["r1"].body, req["r1"].lang), "")
            = Found(req["r1"].resp.translated)

\* the provider's translations of a text into a language
TranslationsOf(text, lang) ==
    {Translation(Truncate(text), lang, v) : v \in Variants(Truncate(text))}

\* C17: whenever translate(T, L) answers from the cache, the value returned
\* is the provider's translation of that same text T into L: a translate(T1,
\* L) that populated the cache never makes a later translate(T2, L), T2
\* different from T1, return T1's translation.
C17_CacheAnswersSameText ==
    \A r \in Requests :
        LET rq == req[r] IN
        (/\ rq.flow = "T"
         /\ rq.pc = "done"
         /\ rq.lookups = 1
         /\ rq.calls = 0
         /\ rq.resp.error = "") =>
            rq.resp.translated \in TranslationsOf(rq.body, rq.lang)

(***************************************************************************)
(* Properties of the responses of Flow A                                   *)
(***************************************************************************)
\* the plain texts extractContentFromURL can extract
ExtractedTexts == {extractText(Parse(page)) : page \in Pages}

\* C18: every 200 response of Flow A, whether served from the cache
\* (cached=true) or computed on a miss (cached=false), carries in `original`
\* the plain text extracted from the URL and in `translated` the translation
\* of that text.
C18_OriginalAndTranslated ==
    \A r \in Requests :
        LET rq == req[r] IN
        (rq.flow = "A" /\ rq.pc = "done" /\ rq.resp.status = 200) =>
            /\ rq.resp.original \in ExtractedTexts
            /\ IF TrimSpace(rq.resp.original) = ""
               THEN rq.resp.translated = rq.resp.original
               ELSE rq.resp.translated \in TranslationsOf(rq.resp.original, rq.lang)

(***************************************************************************)
(* Properties of the documents Flow B caches                               *)
(***************************************************************************)
\* the translation of at least one text node of the request's document failed
SomeNodeFailed(rq) ==
    \E i \in 1..Len(rq.walk) : rq.walk[i].err # ""

\* C19: every document that Flow B writes to the cache under (requestPath,
\* language) has had every non-blank text node replaced by a successful
\* translation: a document in which the translation of at least one node
\* failed is returned to the client but is not cached.
C19_PartialDocumentsNotCached ==
    \A r \in Requests :
        LET rq == req[r]
            k  == CacheKey(rq.url, rq.lang)
        IN  (rq.flow = "B" /\ rq.pc = "done" /\ SomeNodeFailed(rq)) =>
                ~(/\ k \in DOMAIN origin
                  /\ origin[k].by = "B"
                  /\ origin[k].content = rq.resp.body)

(***************************************************************************)
(* Properties of the cache key                                             *)
(***************************************************************************)
\* C20: cache-key construction is injective over (primaryKey, language)
\* pairs: for any two distinct pairs, including a primaryKey that contains
\* '|', an empty language (as translate uses for its text-keyed entries, next
\* to the URL-keyed entries of the flows), a put on one never changes what
\* get returns for the other.
C20_DistinctPairsDoNotCollide ==
    Len(puts) >= 2 =>
        LET later   == puts[1]
            earlier == puts[2]
        IN  (/\ <<earlier.key, earlier.lang>> # <<later.key, later.lang>>
             /\ now < earlier.at + CacheDuration) =>
                getFromCache(earlier.key, earlier.lang) = Found(earlier.content)

====
